---- MODULE Spec2Model ----
(***************************************************************************)
(* A model of the conversation orchestration engine of ChatDev:            *)
(*   camel/agents/chat_agent.py    ChatAgent (the Turn Executor)           *)
(*   camel/agents/role_playing.py  RolePlaying (the Role-Playing Driver)   *)
(* One dialogue session: two ChatAgents driven by one RolePlaying object.  *)
(* The suspension points of the session are the Model Gateway calls; the   *)
(* model has one action per synchronous stretch of code between them.      *)
(***************************************************************************)
EXTENDS Integers, Sequences, FiniteSets, TLC

VARIABLES
    agent,                \* agent id -> [stored_messages, terminated, info]
    message_window_size,  \* agent id -> <<>> (None) or <<w>> (fixed at construction)
    vector_store,         \* TRUE iff a Memory Gateway is bound (fixed at construction)
    pc,                   \* "idle", or which agent's gateway call is outstanding
    attempt,              \* attempt number of the running ChatAgent.step (tenacity)
    input_message,        \* the argument of the running ChatAgent.step
    request,              \* the completion request in flight (openai_messages)
    assistant_only,       \* argument of the running RolePlaying.step
    assistant_response,   \* RolePlaying.step's local while the user agent runs
    ret,                  \* outcome of the last driver operation
    placeholders,         \* the caller's placeholders dict after the last init_chat
    mem,                  \* what the last init_chat did with the memory gateways
    turn,                 \* per agent: record of its ChatAgent.step in the last exchange
    pre,                  \* the agents as they were when the last operation began
    msg_read,             \* what the caller got reading .msg of the returned pair
    budget,               \* what the environment may still do: [ops, fails]
    jobs,                 \* run_service.jobs: job id -> registry entry
    task,                 \* job id -> where its run_chatdev_task coroutine is
    session,              \* job id -> the histories of its chain's two agents
    status_log,           \* job id -> the assignments to its status, in order
    points,               \* the vector store's collection: point id -> point
    store_ret             \* the last vector store operation and what it gave

chat_vars == <<agent, message_window_size, vector_store, pc, attempt,
               input_message, request, assistant_only, assistant_response, ret,
               placeholders, mem, turn, pre, msg_read, budget>>

service_vars == <<jobs, task, session, status_log>>

store_vars == <<points, store_ret>>

vars == <<agent, message_window_size, vector_store, pc, attempt, input_message,
          request, assistant_only, assistant_response, ret, placeholders, mem,
          turn, pre, msg_read, budget, jobs, task, session, status_log,
          points, store_ret>>

-----------------------------------------------------------------------------
(* Bounds of the model *)

MaxOps == 3          \* driver operations per behaviour whose gateway never fails
MaxFlakyOps == 1     \* driver operations per behaviour whose gateway may fail
MaxFailures == 5     \* gateway failures per behaviour
MaxWindow == 2       \* largest configured message_window_size
TokenLimit == 9      \* get_model_token_limit(model), scaled down
MsgOverhead == 1     \* per-message framing cost of num_tokens_from_messages
MaxResults == 1      \* items a memory search returns (limit=3 in the code)
MaxWideOps == 2      \* driver operations per behaviour of SpecWide
MaxJobs == 2         \* jobs submitted to the service per behaviour
MaxChainSteps == 1   \* exchanges a job's chain runs before it ends
MaxPoints == 2       \* point ids the vector store's collection can hold
MaxChatOps == 3      \* init_chat and the exchanges after it, in SpecChat

(* Program constants *)

MaxAttempts == 5     \* stop_after_attempt(5)

None == "None"
Assistant == "assistant_agent"
User == "user_agent"
Agents == {Assistant, User}

-----------------------------------------------------------------------------
(* Text.  A content is a sequence of lines (split on "\n"); a line is a    *)
(* sequence of tokens.  "<INFO>" is the sentinel token.                    *)

Sentinel == "<INFO>"

CSys == << <<"w">> >>
CPlain == << <<"w">> >>
CLong == << <<"w", "w", "w">>, <<"w", "w", "w">> >>
CInfo == << <<"w">>, <<Sentinel, "w">> >>
CInfoEarly == << <<Sentinel>>, <<"w">> >>
CInfoLate == << <<"w", Sentinel>> >>
CInfoTrailing == << <<Sentinel, "w">>, <<>> >>

ReplyContents == {CPlain, CInfo}
InboundContents == {CPlain, CLong}

RECURSIVE SumLens(_)
SumLens(lines) ==
    IF lines = <<>> THEN 0 ELSE Len(Head(lines)) + SumLens(Tail(lines))

\* tokens of one content, as the model's tokenizer counts them
ContentTokens(content) == SumLens(content)

-----------------------------------------------------------------------------
(* Messages *)

ChatMessage(role_name, role, content) ==
    [role_name |-> role_name, role |-> role, content |-> content]

NoMessage == ChatMessage(None, None, <<>>)

\* the fixed preamble of each agent (RolePlaying.__init__, ChatAgent.__init__)
system_message(a) == ChatMessage(a, "system", CSys)

\* camel.messages: a copy of the message whose protocol role is "user"
set_user_role_at_backend(m) == [m EXCEPT !.role = "user"]

\* camel.utils: tokens of the messages plus a fixed overhead per message
RECURSIVE num_tokens_from_messages(_)
num_tokens_from_messages(messages) ==
    IF messages = <<>> THEN 0
    ELSE MsgOverhead + ContentTokens(Head(messages).content)
         + num_tokens_from_messages(Tail(messages))

model_token_limit == TokenLimit

-----------------------------------------------------------------------------
(* ChatAgentResponse and its info record *)

get_info(id, usage, termination_reasons, num_tokens) ==
    [id |-> id, usage |-> usage, termination_reasons |-> termination_reasons,
     num_tokens |-> num_tokens, len |-> 4]

\* the empty dict {} the driver passes for a result that was not produced
EmptyInfo ==
    [id |-> None, usage |-> None, termination_reasons |-> <<>>,
     num_tokens |-> 0, len |-> 0]

ChatAgentResponse(msgs, terminated, info) ==
    [msgs |-> msgs, terminated |-> terminated, info |-> info]

EmptyResponse == ChatAgentResponse(<<>>, FALSE, EmptyInfo)

\* .msg without its check of the terminated flag
msg_IgnoresTerminated(r) ==
    IF Len(r.msgs) > 1
    THEN [kind |-> "raise", value |-> NoMessage]
    ELSE IF Len(r.msgs) = 0
    THEN IF r.info.len > 0
         THEN [kind |-> "raise", value |-> NoMessage]
         ELSE [kind |-> "none", value |-> NoMessage]
    ELSE [kind |-> "value", value |-> r.msgs[1]]

\* the property ChatAgentResponse.msg: what reading it gives
msg(r) ==
    IF r.terminated
    THEN [kind |-> "raise", value |-> NoMessage]
    ELSE IF Len(r.msgs) > 1
    THEN [kind |-> "raise", value |-> NoMessage]
    ELSE IF Len(r.msgs) = 0
    THEN IF r.info.len > 0
         THEN [kind |-> "raise", value |-> NoMessage]
         ELSE [kind |-> "none", value |-> NoMessage]
    ELSE [kind |-> "value", value |-> r.msgs[1]]

Unread == [kind |-> "unread", value |-> NoMessage]
NotRead ==
    [assistant |-> Unread, user |-> Unread,
     assistant_step |-> Unread, user_step |-> Unread]

-----------------------------------------------------------------------------
(* ChatAgent *)

init_messages(a) == <<system_message(a)>>

\* ChatAgent.__init__: flags cleared, history seeded with the system message
NewAgent(a) ==
    [stored_messages |-> init_messages(a), terminated |-> FALSE, info |-> FALSE]

\* a reset that also clears the info flag
reset_ClearsInfo(a, ag) ==
    [ag EXCEPT !.terminated = FALSE, !.info = FALSE,
               !.stored_messages = init_messages(a)]

\* a reset that re-seeds the history and leaves the termination flag alone
reset_KeepsFlag(a, ag) ==
    [ag EXCEPT !.stored_messages = init_messages(a)]

\* ChatAgent.reset: terminated cleared, history re-seeded; info is left alone
reset(a, ag) ==
    [ag EXCEPT !.terminated = FALSE, !.stored_messages = init_messages(a)]

update_messages(stored, message) == Append(stored, message)

\* messages[-w:] of Python, for w >= 1
LastN(messages, w) ==
    IF w >= Len(messages) THEN messages
    ELSE SubSeq(messages, Len(messages) - w + 1, Len(messages))

\* a window that is only the suffix, the system message evicted with the rest
EffectiveContext_NoSystem(a, w, messages) ==
    IF w # <<>> /\ Len(messages) > w[1]
    THEN LastN(messages, w[1])
    ELSE messages

\* the window applied from a history of W messages on, not from W + 1
EffectiveContext_AtWindow(a, w, messages) ==
    IF w # <<>> /\ Len(messages) >= w[1]
    THEN <<system_message(a)>> \o LastN(messages, w[1])
    ELSE messages

\* the window of ChatAgent.step: what is sent to the model
EffectiveContext(a, w, messages) ==
    IF w # <<>> /\ Len(messages) > w[1]
    THEN <<system_message(a)>> \o LastN(messages, w[1])
    ELSE messages

\* the sentinel looked for at the start of any line of the content
LastLineStartsWithInfo_AnyLine(content) ==
    \E i \in 1..Len(content) : Len(content[i]) >= 1 /\ content[i][1] = Sentinel

\* content.split("\n")[-1].startswith("<INFO>")
LastLineStartsWithInfo(content) ==
    LET last == content[Len(content)]
    IN Len(last) >= 1 /\ last[1] = Sentinel

TerminationReason == "max_tokens_exceeded_by_camel"

\* the budget check with <= for <: a context of exactly the limit is sent
StepBody_BudgetInclusive(ag, a, w, message) ==
    LET messages == update_messages(ag.stored_messages, message)
        context == EffectiveContext(a, w, messages)
        num_tokens == num_tokens_from_messages(context)
        under == num_tokens <= model_token_limit
        ag1 == [ag EXCEPT !.stored_messages = messages]
        ag2 == IF under THEN ag1 ELSE [ag1 EXCEPT !.terminated = TRUE]
    IN [agent |-> ag2,
        under |-> under,
        context |-> context,
        num_tokens |-> num_tokens,
        response |-> ChatAgentResponse(<<>>, ag2.terminated,
                         get_info(None, None, <<TerminationReason>>, num_tokens))]

\* the flag recomputed by every step: an under-budget step clears it
StepBody_ClearsFlag(ag, a, w, message) ==
    LET messages == update_messages(ag.stored_messages, message)
        context == EffectiveContext(a, w, messages)
        num_tokens == num_tokens_from_messages(context)
        under == num_tokens < model_token_limit
        ag1 == [ag EXCEPT !.stored_messages = messages]
        ag2 == [ag1 EXCEPT !.terminated = ~under]
    IN [agent |-> ag2,
        under |-> under,
        context |-> context,
        num_tokens |-> num_tokens,
        response |-> ChatAgentResponse(<<>>, ag2.terminated,
                         get_info(None, None, <<TerminationReason>>, num_tokens))]

\* the windowed context kept as the history
StepBody_StoresWindow(ag, a, w, message) ==
    LET messages == update_messages(ag.stored_messages, message)
        context == EffectiveContext(a, w, messages)
        num_tokens == num_tokens_from_messages(context)
        under == num_tokens < model_token_limit
        ag1 == [ag EXCEPT !.stored_messages = context]
        ag2 == IF under THEN ag1 ELSE [ag1 EXCEPT !.terminated = TRUE]
    IN [agent |-> ag2,
        under |-> under,
        context |-> context,
        num_tokens |-> num_tokens,
        response |-> ChatAgentResponse(<<>>, ag2.terminated,
                         get_info(None, None, <<TerminationReason>>, num_tokens))]

\* The body of ChatAgent.step up to the gateway call: append the input, window,
\* count; over budget it ends the step with the terminated response.
StepBody(ag, a, w, message) ==
    LET messages == update_messages(ag.stored_messages, message)
        context == EffectiveContext(a, w, messages)
        num_tokens == num_tokens_from_messages(context)
        under == num_tokens < model_token_limit
        ag1 == [ag EXCEPT !.stored_messages = messages]
        ag2 == IF under THEN ag1 ELSE [ag1 EXCEPT !.terminated = TRUE]
    IN [agent |-> ag2,
        under |-> under,
        context |-> context,
        num_tokens |-> num_tokens,
        response |-> ChatAgentResponse(<<>>, ag2.terminated,
                         get_info(None, None, <<TerminationReason>>, num_tokens))]

\* The rest of ChatAgent.step once the gateway has answered with `choices`
\* (a non-empty sequence of contents): build the replies, detect the sentinel.
StepReturn(ag, a, choices, num_tokens) ==
    LET output_messages ==
            [i \in 1..Len(choices) |-> ChatMessage(a, "assistant", choices[i])]
        info == get_info("id", "usage",
                         [i \in 1..Len(choices) |-> "stop"], num_tokens)
        ag1 == IF LastLineStartsWithInfo(output_messages[1].content)
               THEN [ag EXCEPT !.info = TRUE] ELSE ag
    IN [agent |-> ag1,
        response |-> ChatAgentResponse(output_messages, ag1.terminated, info)]

-----------------------------------------------------------------------------
(* Phase templates and placeholders *)

Keys == {"assistant_role", "task", "examples"}

\* a dict over Keys: the keys present, and their values (token sequences)
Dict(has, val) == [has |-> has, val |-> val]
NoValue == [k \in Keys |-> <<>>]
EmptyDict == Dict({}, NoValue)
Singleton(k, v) == Dict({k}, [NoValue EXCEPT ![k] = v])

\* a merge in which the entries of a win
Merge_LeftWins(a, b) ==
    Dict(a.has \cup b.has,
         [k \in Keys |-> IF k \in a.has THEN a.val[k] ELSE b.val[k]])

\* a | b of Python: the entries of b win
Merge(a, b) ==
    Dict(a.has \cup b.has,
         [k \in Keys |-> IF k \in b.has THEN b.val[k] ELSE a.val[k]])

FieldOf == ("{assistant_role}" :> "assistant_role") @@ ("{task}" :> "task")
IsField(tok) == tok \in DOMAIN FieldOf

RECURSIVE FormatLine(_, _)
FormatLine(line, d) ==
    IF line = <<>> THEN <<>>
    ELSE (IF IsField(Head(line)) THEN d.val[FieldOf[Head(line)]] ELSE <<Head(line)>>)
         \o FormatLine(Tail(line), d)

\* str.format(**d): every replacement field is substituted
Format(template, d) == [i \in 1..Len(template) |-> FormatLine(template[i], d)]

\* str.format raises KeyError for a field the dict lacks
FormatRaises(template, d) ==
    \E i \in 1..Len(template) : \E j \in 1..Len(template[i]) :
        IsField(template[i][j]) /\ FieldOf[template[i][j]] \notin d.has

THello == << <<"Hello", "{assistant_role}">> >>
TTask == << <<"{task}">>, <<"w">> >>
Templates == {THello, TTask}

CallerPlaceholders ==
    {EmptyDict, Singleton("task", <<"w">>), Singleton("assistant_role", <<"Coder">>)}

-----------------------------------------------------------------------------
(* ChatAgent.use_memory_async *)

NoMemory == [some |-> FALSE, text |-> <<>>]

\* "\n\nRelevant past memories:\n" followed by one "- content" line per result
MemoryBlock(n) ==
    [some |-> TRUE,
     text |-> <<"Relevant past memories:">> \o [i \in 1..n |-> "- memory"]]

EmbeddingOutcomes == {"raise", "empty", "vector"}
SearchOutcomes ==
    {[raised |-> TRUE, n |-> 0]} \cup {[raised |-> FALSE, n |-> k] : k \in 0..MaxResults}

NoSearch == [raised |-> FALSE, n |-> 0]

\* nothing retrieved, nothing called
NoMem ==
    [result |-> NoMemory, embed_calls |-> 0, search_calls |-> 0,
     embedding |-> "not_called", results |-> NoSearch, raised |-> FALSE]

\* the exception of a failing search let through to the caller
use_memory_async_Propagates(bound, emb, res) ==
    IF ~bound THEN NoMem
    ELSE IF emb # "vector"
    THEN [NoMem EXCEPT !.embed_calls = 1, !.embedding = emb]
    ELSE IF res.raised
    THEN [NoMem EXCEPT !.embed_calls = 1, !.embedding = emb,
                       !.search_calls = 1, !.results = res, !.raised = TRUE]
    ELSE IF res.n = 0
    THEN [NoMem EXCEPT !.embed_calls = 1, !.embedding = emb,
                       !.search_calls = 1, !.results = res]
    ELSE [NoMem EXCEPT !.embed_calls = 1, !.embedding = emb,
                       !.search_calls = 1, !.results = res,
                       !.result = MemoryBlock(res.n)]

\* a search that found nothing answered with an empty string
use_memory_async_EmptyString(bound, emb, res) ==
    IF ~bound THEN NoMem
    ELSE IF emb # "vector"
    THEN [NoMem EXCEPT !.embed_calls = 1, !.embedding = emb]
    ELSE IF res.raised
    THEN [NoMem EXCEPT !.embed_calls = 1, !.embedding = emb,
                       !.search_calls = 1, !.results = res]
    ELSE [NoMem EXCEPT !.embed_calls = 1, !.embedding = emb,
                       !.search_calls = 1, !.results = res,
                       !.result = IF res.n = 0
                                  THEN [some |-> TRUE, text |-> <<>>]
                                  ELSE MemoryBlock(res.n)]

\* the value returned, the gateway calls made and what they gave, for the
\* given outcomes of the embedding call and of the search
use_memory_async(bound, emb, res) ==
    IF ~bound THEN NoMem
    ELSE IF emb # "vector"
    THEN [NoMem EXCEPT !.embed_calls = 1, !.embedding = emb]
    ELSE IF res.raised \/ res.n = 0
    THEN [NoMem EXCEPT !.embed_calls = 1, !.embedding = emb,
                       !.search_calls = 1, !.results = res]
    ELSE [NoMem EXCEPT !.embed_calls = 1, !.embedding = emb,
                       !.search_calls = 1, !.results = res,
                       !.result = MemoryBlock(res.n)]

-----------------------------------------------------------------------------
(* Bookkeeping of one ChatAgent.step call (observation only) *)

\* status: not_called, running (gateway call outstanding), returned, raised
\* attempts: executions of the step body; calls: gateway invocations; fails:
\* gateway failures; invoked_last: the last execution invoked the gateway;
\* num_tokens: the count of the last execution; input: the step's argument;
\* stored: the agent's history when the step last ran
NotCalled ==
    [status |-> "not_called", attempts |-> 0, calls |-> 0, fails |-> 0,
     invoked_last |-> FALSE, num_tokens |-> 0, input |-> NoMessage,
     stored |-> <<>>, response |-> EmptyResponse]

NoRequest == [messages |-> <<>>, num_tokens |-> 0]

NoResult ==
    [op |-> "none", status |-> "none", exc |-> None, assistant |-> EmptyResponse,
     user |-> EmptyResponse, msg |-> NoMessage, target |-> None,
     template |-> <<>>]

TurnSuspended(t, k, body, message) ==
    [t EXCEPT !.status = "running", !.attempts = k, !.calls = @ + 1,
              !.invoked_last = TRUE, !.num_tokens = body.num_tokens,
              !.input = message, !.stored = body.agent.stored_messages]

TurnOverBudget(t, k, body, message) ==
    [t EXCEPT !.status = "returned", !.attempts = k, !.invoked_last = FALSE,
              !.num_tokens = body.num_tokens, !.response = body.response,
              !.input = message, !.stored = body.agent.stored_messages]

TurnFailed(t) == [t EXCEPT !.fails = @ + 1]

TurnAnswered(t, response) ==
    [t EXCEPT !.status = "returned", !.response = response]

TurnRaised(t) == [t EXCEPT !.status = "raised"]

-----------------------------------------------------------------------------
(* RolePlaying.step, in the pieces between its two awaits *)

\* RolePlaying.step returns the pair (first, second)
Return(ag, tr, first, second) ==
    /\ agent' = ag
    /\ turn' = tr
    /\ ret' = [NoResult EXCEPT !.op = "step", !.status = "returned",
                               !.assistant = first, !.user = second]
    /\ msg_read' = NotRead
    /\ pc' = "idle"
    /\ attempt' = 0
    /\ input_message' = NoMessage
    /\ request' = NoRequest
    /\ assistant_response' = EmptyResponse

\* an exception leaves RolePlaying.step
Raise(ag, tr, exc) ==
    /\ agent' = ag
    /\ turn' = tr
    /\ ret' = [NoResult EXCEPT !.op = "step", !.status = "raised", !.exc = exc]
    /\ msg_read' = NotRead
    /\ pc' = "idle"
    /\ attempt' = 0
    /\ input_message' = NoMessage
    /\ request' = NoRequest
    /\ assistant_response' = EmptyResponse

\* `await self.model_backend.run_async(messages=openai_messages)` of agent a
Suspend(ag, tr, a, k, message, body, aresp) ==
    /\ agent' = ag
    /\ turn' = tr
    /\ ret' = [NoResult EXCEPT !.op = "step", !.status = "running"]
    /\ msg_read' = NotRead
    /\ pc' = a
    /\ attempt' = k
    /\ input_message' = message
    /\ request' = [messages |-> body.context, num_tokens |-> body.num_tokens]
    /\ assistant_response' = aresp

\* the user's reply returned but not appended to the user's history
AfterUser_SkipsAppend(ag, tr, aresp, user_response) ==
    LET assistant_msg == aresp.msgs[1]
        first == ChatAgentResponse(<<assistant_msg>>, aresp.terminated, aresp.info)
    IN IF user_response.terminated
       THEN Return(ag, tr, first,
                   ChatAgentResponse(<<user_response>>, user_response.terminated,
                                     user_response.info))
       ELSE IF Len(user_response.msgs) # 1
       THEN Raise(ag, tr, "ValueError")
       ELSE LET user_msg == user_response.msgs[1]
                second == ChatAgentResponse(<<user_msg>>, user_response.terminated,
                                            user_response.info)
            IN Return(ag, tr, first, second)

\* RolePlaying.step after `user_response = await self.user_agent.step(...)`
AfterUser(ag, tr, aresp, user_response) ==
    LET assistant_msg == aresp.msgs[1]
        first == ChatAgentResponse(<<assistant_msg>>, aresp.terminated, aresp.info)
    IN IF user_response.terminated
       THEN Return(ag, tr, first,
                   ChatAgentResponse(<<user_response>>, user_response.terminated,
                                     user_response.info))
       ELSE IF Len(user_response.msgs) # 1
       THEN Raise(ag, tr, "ValueError")
       ELSE LET user_msg == user_response.msgs[1]
                second == ChatAgentResponse(<<user_msg>>, user_response.terminated,
                                            user_response.info)
            IN IF ag[User].info
               THEN Return(ag, tr, first, second)
               ELSE Return([ag EXCEPT ![User].stored_messages =
                                update_messages(@, user_msg)],
                           tr, first, second)

\* attempt k of self.user_agent.step(message)
UserAttempt(ag, tr, k, message, aresp) ==
    LET body == StepBody(ag[User], User, message_window_size[User], message)
        ag1 == [ag EXCEPT ![User] = body.agent]
    IN IF body.under
       THEN Suspend(ag1, [tr EXCEPT ![User] = TurnSuspended(@, k, body, message)],
                    User, k, message, body, aresp)
       ELSE AfterUser(ag1, [tr EXCEPT ![User] = TurnOverBudget(@, k, body, message)],
                      aresp, body.response)

\* the reply appended before the info flag is looked at
AfterAssistant_AppendOnInfo(ag, tr, aresp, ao) ==
    IF aresp.terminated
    THEN Return(ag, tr,
                ChatAgentResponse(<<aresp.msgs>>, aresp.terminated, aresp.info),
                EmptyResponse)
    ELSE IF Len(aresp.msgs) # 1
    THEN Raise(ag, tr, "ValueError")
    ELSE LET assistant_msg == aresp.msgs[1]
             first == ChatAgentResponse(<<assistant_msg>>, aresp.terminated,
                                        aresp.info)
             ag1 == [ag EXCEPT ![Assistant].stored_messages =
                         update_messages(@, assistant_msg)]
         IN IF ag[Assistant].info
            THEN Return(ag1, tr, first, EmptyResponse)
            ELSE IF ao
            THEN Return(ag1, tr, first, EmptyResponse)
            ELSE UserAttempt(ag1, tr, 1, set_user_role_at_backend(assistant_msg),
                             aresp)

\* assistant_only not looked at: the user agent always runs
AfterAssistant_IgnoreAssistantOnly(ag, tr, aresp, ao) ==
    IF aresp.terminated
    THEN Return(ag, tr,
                ChatAgentResponse(<<aresp.msgs>>, aresp.terminated, aresp.info),
                EmptyResponse)
    ELSE IF Len(aresp.msgs) # 1
    THEN Raise(ag, tr, "ValueError")
    ELSE LET assistant_msg == aresp.msgs[1]
             first == ChatAgentResponse(<<assistant_msg>>, aresp.terminated,
                                        aresp.info)
             ag1 == [ag EXCEPT ![Assistant].stored_messages =
                         update_messages(@, assistant_msg)]
         IN IF ag[Assistant].info
            THEN Return(ag, tr, first, EmptyResponse)
            ELSE UserAttempt(ag1, tr, 1, set_user_role_at_backend(assistant_msg),
                             aresp)

\* the relabelling done in place: the assistant's stored reply is the message
\* handed to the user agent
AfterAssistant_RelabelInPlace(ag, tr, aresp, ao) ==
    IF aresp.terminated
    THEN Return(ag, tr,
                ChatAgentResponse(<<aresp.msgs>>, aresp.terminated, aresp.info),
                EmptyResponse)
    ELSE IF Len(aresp.msgs) # 1
    THEN Raise(ag, tr, "ValueError")
    ELSE LET assistant_msg == aresp.msgs[1]
             first == ChatAgentResponse(<<assistant_msg>>, aresp.terminated,
                                        aresp.info)
             ag1 == [ag EXCEPT ![Assistant].stored_messages =
                         update_messages(@, assistant_msg)]
             relabelled == [ag EXCEPT ![Assistant].stored_messages =
                               update_messages(@,
                                   set_user_role_at_backend(assistant_msg))]
         IN IF ag[Assistant].info
            THEN Return(ag, tr, first, EmptyResponse)
            ELSE IF ao
            THEN Return(ag1, tr, first, EmptyResponse)
            ELSE UserAttempt(relabelled, tr, 1,
                             set_user_role_at_backend(assistant_msg), aresp)

\* the info flag not looked at: the exchange goes on to the user agent
AfterAssistant_InfoContinues(ag, tr, aresp, ao) ==
    IF aresp.terminated
    THEN Return(ag, tr,
                ChatAgentResponse(<<aresp.msgs>>, aresp.terminated, aresp.info),
                EmptyResponse)
    ELSE IF Len(aresp.msgs) # 1
    THEN Raise(ag, tr, "ValueError")
    ELSE LET assistant_msg == aresp.msgs[1]
             first == ChatAgentResponse(<<assistant_msg>>, aresp.terminated,
                                        aresp.info)
             ag1 == [ag EXCEPT ![Assistant].stored_messages =
                         update_messages(@, assistant_msg)]
         IN IF ao
            THEN Return(ag1, tr, first, EmptyResponse)
            ELSE UserAttempt(ag1, tr, 1, set_user_role_at_backend(assistant_msg),
                             aresp)

\* the first of several replies taken instead of raising
AfterAssistant_PicksFirst(ag, tr, aresp, ao) ==
    IF aresp.terminated
    THEN Return(ag, tr,
                ChatAgentResponse(<<aresp.msgs>>, aresp.terminated, aresp.info),
                EmptyResponse)
    ELSE LET assistant_msg == aresp.msgs[1]
             first == ChatAgentResponse(<<assistant_msg>>, aresp.terminated,
                                        aresp.info)
             ag1 == [ag EXCEPT ![Assistant].stored_messages =
                         update_messages(@, assistant_msg)]
         IN IF ag[Assistant].info
            THEN Return(ag, tr, first, EmptyResponse)
            ELSE IF ao
            THEN Return(ag1, tr, first, EmptyResponse)
            ELSE UserAttempt(ag1, tr, 1, set_user_role_at_backend(assistant_msg),
                             aresp)

\* RolePlaying.step after `assistant_response = await self.assistant_agent.step(...)`
AfterAssistant(ag, tr, aresp, ao) ==
    IF aresp.terminated
    THEN Return(ag, tr,
                ChatAgentResponse(<<aresp.msgs>>, aresp.terminated, aresp.info),
                EmptyResponse)
    ELSE IF Len(aresp.msgs) # 1
    THEN Raise(ag, tr, "ValueError")
    ELSE LET assistant_msg == aresp.msgs[1]
             first == ChatAgentResponse(<<assistant_msg>>, aresp.terminated,
                                        aresp.info)
             ag1 == [ag EXCEPT ![Assistant].stored_messages =
                         update_messages(@, assistant_msg)]
         IN IF ag[Assistant].info
            THEN Return(ag, tr, first, EmptyResponse)
            ELSE IF ao
            THEN Return(ag1, tr, first, EmptyResponse)
            ELSE UserAttempt(ag1, tr, 1, set_user_role_at_backend(assistant_msg),
                             aresp)

\* attempt k of self.assistant_agent.step(message)
AssistantAttempt(ag, tr, k, message, ao) ==
    LET body == StepBody(ag[Assistant], Assistant, message_window_size[Assistant],
                         message)
        ag1 == [ag EXCEPT ![Assistant] = body.agent]
    IN IF body.under
       THEN Suspend(ag1, [tr EXCEPT ![Assistant] = TurnSuspended(@, k, body, message)],
                    Assistant, k, message, body, EmptyResponse)
       ELSE AfterAssistant(ag1, [tr EXCEPT ![Assistant] = TurnOverBudget(@, k, body, message)],
                           body.response, ao)

\* what the gateway may answer: one choice, or two (n > 1 in the model config)
Choices ==
    {<<c>> : c \in ReplyContents} \cup {<<CPlain, CPlain>>}

\* RolePlaying.step(user_msg, assistant_only) up to its first await
RolePlayingStep(role, content, ao) ==
    /\ pc = "idle"
    /\ budget.ops > 0
    /\ budget' = [budget EXCEPT !.ops = @ - 1]
    /\ pre' = agent
    /\ assistant_only' = ao
    /\ AssistantAttempt(agent, [a \in Agents |-> NotCalled], 1,
                        set_user_role_at_backend(ChatMessage(User, role, content)),
                        ao)
    /\ placeholders' = EmptyDict
    /\ mem' = NoMem
    /\ UNCHANGED <<message_window_size, vector_store>>
    /\ UNCHANGED <<service_vars, store_vars>>

\* the assistant's completion call returns choices
AssistantGatewayAnswer(choices) ==
    /\ pc = Assistant
    /\ UNCHANGED budget
    /\ LET r == StepReturn(agent[Assistant], Assistant, choices, request.num_tokens)
       IN AfterAssistant([agent EXCEPT ![Assistant] = r.agent],
                         [turn EXCEPT ![Assistant] = TurnAnswered(@, r.response)],
                         r.response, assistant_only)
    /\ UNCHANGED <<message_window_size, vector_store, placeholders, mem, pre,
                   assistant_only>>
    /\ UNCHANGED <<service_vars, store_vars>>

\* the assistant's completion call raises (or answers with no choice, which
\* raises at output_messages[0]): tenacity runs the whole step again
AssistantGatewayFail ==
    /\ pc = Assistant
    /\ budget.fails > 0
    /\ budget' = [budget EXCEPT !.fails = @ - 1]
    /\ IF attempt < MaxAttempts
       THEN AssistantAttempt(agent, [turn EXCEPT ![Assistant] = TurnFailed(@)],
                             attempt + 1, input_message, assistant_only)
       ELSE Raise(agent, [turn EXCEPT ![Assistant] = TurnRaised(TurnFailed(@))],
                  "RetryError")
    /\ UNCHANGED <<message_window_size, vector_store, placeholders, mem, pre,
                   assistant_only>>
    /\ UNCHANGED <<service_vars, store_vars>>

\* the user's completion call returns choices
UserGatewayAnswer(choices) ==
    /\ pc = User
    /\ UNCHANGED budget
    /\ LET r == StepReturn(agent[User], User, choices, request.num_tokens)
       IN AfterUser([agent EXCEPT ![User] = r.agent],
                    [turn EXCEPT ![User] = TurnAnswered(@, r.response)],
                    assistant_response, r.response)
    /\ UNCHANGED <<message_window_size, vector_store, placeholders, mem, pre,
                   assistant_only>>
    /\ UNCHANGED <<service_vars, store_vars>>

\* the user's completion call raises
UserGatewayFail ==
    /\ pc = User
    /\ budget.fails > 0
    /\ budget' = [budget EXCEPT !.fails = @ - 1]
    /\ IF attempt < MaxAttempts
       THEN UserAttempt(agent, [turn EXCEPT ![User] = TurnFailed(@)],
                        attempt + 1, input_message, assistant_response)
       ELSE Raise(agent, [turn EXCEPT ![User] = TurnRaised(TurnFailed(@))],
                  "RetryError")
    /\ UNCHANGED <<message_window_size, vector_store, placeholders, mem, pre,
                   assistant_only>>
    /\ UNCHANGED <<service_vars, store_vars>>

-----------------------------------------------------------------------------
(* RolePlaying.init_chat *)

\* the retrieved memory block made part of the first message
init_chat_MemoryInContent(ags, template, ph, bound, emb, res) ==
    LET ag0 == [a \in Agents |-> reset(a, ags[a])]
        d == Merge(Singleton("assistant_role", <<Assistant>>), ph)
        m == use_memory_async(bound, emb, res)
        content == Format(template, d)
                       \o (IF m.result.some THEN <<m.result.text>> ELSE <<>>)
        user_msg == ChatMessage(User, "user", content)
        pseudo_msg == [user_msg EXCEPT !.role = "assistant"]
    IN IF FormatRaises(template, d)
       THEN [agent |-> ag0,
             ret |-> [NoResult EXCEPT !.op = "init_chat", !.status = "raised",
                                      !.exc = "KeyError", !.template = template],
             placeholders |-> ph,
             mem |-> NoMem]
       ELSE [agent |-> [ag0 EXCEPT ![User].stored_messages =
                            update_messages(@, pseudo_msg)],
             ret |-> [NoResult EXCEPT !.op = "init_chat", !.status = "returned",
                                      !.msg = user_msg, !.template = template],
             placeholders |->
                 IF m.result.some
                 THEN Merge(ph, Singleton("examples", m.result.text))
                 ELSE ph,
             mem |-> m]

\* RolePlaying.init_chat as a function of the agents, the phase prompt, the
\* caller's placeholders and what the memory gateways do: the agents after it,
\* its outcome, the caller's dict after it, and the record of the retrieval
init_chat(ags, template, ph, bound, emb, res) ==
    LET ag0 == [a \in Agents |-> reset(a, ags[a])]
        d == Merge(Singleton("assistant_role", <<Assistant>>), ph)
    IN IF FormatRaises(template, d)
       THEN [agent |-> ag0,
             ret |-> [NoResult EXCEPT !.op = "init_chat", !.status = "raised",
                                      !.exc = "KeyError", !.template = template],
             placeholders |-> ph,
             mem |-> NoMem]
       ELSE LET content == Format(template, d)
                m == use_memory_async(bound, emb, res)
                user_msg == ChatMessage(User, "user", content)
                pseudo_msg == [user_msg EXCEPT !.role = "assistant"]
            IN IF m.raised
               THEN [agent |-> ag0,
                     ret |-> [NoResult EXCEPT !.op = "init_chat",
                                              !.status = "raised",
                                              !.exc = "Exception",
                                              !.template = template],
                     placeholders |-> ph,
                     mem |-> m]
               ELSE [agent |-> [ag0 EXCEPT ![User].stored_messages =
                                    update_messages(@, pseudo_msg)],
                     ret |-> [NoResult EXCEPT !.op = "init_chat",
                                              !.status = "returned",
                                              !.msg = user_msg,
                                              !.template = template],
                     placeholders |->
                         IF m.result.some
                         THEN Merge(ph, Singleton("examples", m.result.text))
                         ELSE ph,
                     mem |-> m]

\* RolePlaying.init_chat called by the driver
InitChat(template, ph, emb, res) ==
    /\ pc = "idle"
    /\ budget.ops > 0
    /\ budget' = [budget EXCEPT !.ops = @ - 1]
    /\ pre' = agent
    /\ LET r == init_chat(agent, template, ph, vector_store, emb, res)
       IN /\ agent' = r.agent
          /\ ret' = r.ret
          /\ placeholders' = r.placeholders
          /\ mem' = r.mem
    /\ turn' = [a \in Agents |-> NotCalled]
    /\ msg_read' = NotRead
    /\ UNCHANGED <<message_window_size, vector_store, pc, attempt, input_message,
                   request, assistant_only, assistant_response>>
    /\ UNCHANGED <<service_vars, store_vars>>

\* ChatAgent.reset called on one agent
AgentReset(a) ==
    /\ pc = "idle"
    /\ budget.ops > 0
    /\ budget' = [budget EXCEPT !.ops = @ - 1]
    /\ pre' = agent
    /\ agent' = [agent EXCEPT ![a] = reset(a, @)]
    /\ ret' = [NoResult EXCEPT !.op = "reset", !.status = "returned",
                               !.target = a]
    /\ turn' = [b \in Agents |-> NotCalled]
    /\ msg_read' = NotRead
    /\ placeholders' = EmptyDict
    /\ mem' = NoMem
    /\ UNCHANGED <<message_window_size, vector_store, pc, attempt, input_message,
                   request, assistant_only, assistant_response>>
    /\ UNCHANGED <<service_vars, store_vars>>

-----------------------------------------------------------------------------
(* The session *)

\* .msg is read on every ChatAgentResponse the last RolePlaying.step built:
\* the pair it returned, and what each ChatAgent.step returned to it
ReadMsg ==
    /\ pc = "idle"
    /\ ret.op = "step"
    /\ ret.status \in {"returned", "raised"}
    /\ msg_read = NotRead
    /\ msg_read' =
          [assistant |-> IF ret.status = "returned"
                         THEN msg(ret.assistant) ELSE Unread,
           user |-> IF ret.status = "returned" THEN msg(ret.user) ELSE Unread,
           assistant_step |-> IF turn[Assistant].status = "returned"
                              THEN msg(turn[Assistant].response) ELSE Unread,
           user_step |-> IF turn[User].status = "returned"
                         THEN msg(turn[User].response) ELSE Unread]
    /\ UNCHANGED <<agent, message_window_size, vector_store, pc, attempt,
                   input_message, request, assistant_only, assistant_response,
                   ret, placeholders, mem, turn, pre, budget>>
    /\ UNCHANGED <<service_vars, store_vars>>

-----------------------------------------------------------------------------
(* QdrantVectorStore *)

PointIds == 1..MaxPoints
Vectors == {"v1", "v2"}
Contents == {"a"}

\* a MemoryItem: id and vector are Optional (<<>> for None); of the metadata
\* only a "content" key matters here (<<>> when the dict has none)
MemoryItem(id, vector, content, meta_content) ==
    [id |-> id, vector |-> vector, content |-> content,
     meta_content |-> meta_content]

Items ==
    {MemoryItem(id, v, c, m) :
        id \in {<<>>} \cup {<<i>> : i \in PointIds},
        v \in {<<>>} \cup {<<x>> : x \in Vectors},
        c \in Contents,
        m \in {<<>>, <<"b">>}}

NoPoint == [present |-> FALSE, vector |-> "", content |-> ""]

\* a payload in which the item's content is stored last and so always kept
Payload_ContentLast(item) == item.content

\* payload = {"content": item.content, **item.metadata}: a "content" key of
\* the metadata replaces the item's content
Payload(item) ==
    IF item.meta_content # <<>> THEN item.meta_content[1] ELSE item.content

PointStruct(item) ==
    [present |-> TRUE, vector |-> item.vector[1], content |-> Payload(item)]

Present(ps) == {i \in PointIds : ps[i].present}

Min(a, b) == IF a <= b THEN a ELSE b

\* query_points: `limit` points, those nearest to the query first
QueryAnswers(ps, q, limit) ==
    {S \in SUBSET Present(ps) :
        /\ Cardinality(S) = Min(limit, Cardinality(Present(ps)))
        /\ \A i \in S, k \in Present(ps) \ S :
              ps[k].vector = q => ps[i].vector = q}

\* the MemoryItems search builds from the points
Found(ps, S) == {[id |-> i, content |-> ps[i].content] : i \in S}

NoStoreOp ==
    [op |-> "none", item |-> MemoryItem(<<>>, <<>>, "", <<>>), stored |-> FALSE,
     query |-> "", limit |-> 0, found |-> {}, ids |-> {}]

\* QdrantVectorStore.add([item]): an item without a vector is skipped; an item
\* without an id gets a fresh one
add(item, fresh) ==
    /\ IF item.vector = <<>>
       THEN /\ points' = points
            /\ store_ret' = [NoStoreOp EXCEPT !.op = "add", !.item = item]
       ELSE LET point_id == IF item.id # <<>> THEN item.id[1] ELSE fresh
            IN /\ item.id = <<>> => ~points[fresh].present
               /\ points' = [points EXCEPT ![point_id] = PointStruct(item)]
               /\ store_ret' = [NoStoreOp EXCEPT !.op = "add", !.item = item,
                                                 !.stored = TRUE]
    /\ UNCHANGED <<chat_vars, service_vars>>

\* QdrantVectorStore.search(query_vector, limit); the record keeps the item
\* of an add or the ids of a delete that ran just before
search(q, limit) ==
    /\ store_ret.op # "search"
    /\ \E S \in QueryAnswers(points, q, limit) :
          store_ret' = [store_ret EXCEPT !.op = "search", !.query = q,
                                         !.limit = limit,
                                         !.found = Found(points, S)]
    /\ UNCHANGED points
    /\ UNCHANGED <<chat_vars, service_vars>>

\* QdrantVectorStore.delete(ids), with ids a search returned
delete(ids) ==
    /\ store_ret.op = "search"
    /\ ids # {}
    /\ ids \subseteq {r.id : r \in store_ret.found}
    /\ points' = [i \in PointIds |-> IF i \in ids THEN NoPoint ELSE points[i]]
    /\ store_ret' = [NoStoreOp EXCEPT !.op = "delete", !.ids = ids]
    /\ UNCHANGED <<chat_vars, service_vars>>

Windows == {<<>>} \cup {<<w>> : w \in 1..MaxWindow}

-----------------------------------------------------------------------------
(* run_service: the job registry and the background runs *)

JobIds == 1..MaxJobs

\* TaskRequest.model values: one in model_type_map, one that falls back
Requests == {"GPT_4", "other"}

\* str(e) of what a chain run may raise
Errors == {"RetryError", ""}

LogPath == "log_filepath"

\* no entry under this id
NoJob ==
    [id |-> 0, status |-> "absent", request |-> "", result_path |-> <<>>,
     error |-> <<>>]

\* the entry create_task stores
NewJob(j, req) ==
    [id |-> j, status |-> "pending", request |-> req, result_path |-> <<>>,
     error |-> <<>>]

\* the histories of a chain's two agents; empty before the chain is built
NoSession == [assistant |-> <<>>, user |-> <<>>]
NewSession == [assistant |-> <<"system">>, user |-> <<"system">>]

\* jobs[job_id]["status"] = "running"
MarkRunning(js, j) == [js EXCEPT ![j].status = "running"]

\* the completed status stored without the result path
MarkCompleted_NoResult(js, j, path) == [js EXCEPT ![j].status = "completed"]

\* jobs[job_id]["status"] = "completed"; jobs[job_id]["result_path"] = ...
MarkCompleted(js, j, path) ==
    [js EXCEPT ![j].status = "completed", ![j].result_path = <<path>>]

\* the handler marking every running job as failed
MarkFailed_AllRunning(js, j, e) ==
    [k \in JobIds |->
        IF js[k].status = "running"
        THEN [js[k] EXCEPT !.status = "failed", !.error = <<e>>]
        ELSE js[k]]

\* except Exception as e: status = "failed"; error = str(e)
MarkFailed(js, j, e) ==
    [js EXCEPT ![j].status = "failed", ![j].error = <<e>>]

\* one assignment to the status of job j; a failure notes whether another job
\* was running beside it, a completion whether another job had failed by then
Logged(j, st) ==
    [status |-> st,
     others |-> IF st = "failed"
                THEN \E k \in JobIds \ {j} : jobs[k].status = "running"
                ELSE IF st = "completed"
                THEN \E k \in JobIds \ {j} : jobs[k].status = "failed"
                ELSE FALSE]

\* POST /tasks: a fresh id, the entry stored, the background run scheduled
create_task(j, req) ==
    /\ jobs[j] = NoJob
    /\ \A k \in JobIds : k < j => jobs[k] # NoJob
    /\ jobs' = [jobs EXCEPT ![j] = NewJob(j, req)]
    /\ task' = [task EXCEPT ![j] = "scheduled"]
    /\ status_log' = [status_log EXCEPT ![j] = Append(@, Logged(j, "pending"))]
    /\ UNCHANGED session
    /\ UNCHANGED <<chat_vars, store_vars>>

\* run_chatdev_task from its start to its first await: the status set to
\* running, the chain built; a constructor that raises ends the run as failed
StartTask(j, built, e) ==
    /\ task[j] = "scheduled"
    /\ IF built
       THEN /\ jobs' = MarkRunning(jobs, j)
            /\ task' = [task EXCEPT ![j] = "awaiting"]
            /\ session' = [session EXCEPT ![j] = NewSession]
            /\ status_log' = [status_log EXCEPT
                                 ![j] = Append(@, Logged(j, "running"))]
       ELSE /\ jobs' = MarkFailed(MarkRunning(jobs, j), j, e)
            /\ task' = [task EXCEPT ![j] = "returned"]
            /\ session' = session
            /\ status_log' = [status_log EXCEPT
                                 ![j] = @ \o <<Logged(j, "running"),
                                               Logged(j, "failed")>>]
    /\ UNCHANGED <<chat_vars, store_vars>>

\* one exchange of the job's chain: both of its agents' histories grow
ChainStep(j) ==
    /\ task[j] = "awaiting"
    /\ Len(session[j].assistant) <= 2 * MaxChainSteps
    /\ session' = [session EXCEPT
                      ![j].assistant = @ \o <<"user", "assistant">>,
                      ![j].user = @ \o <<"user", "assistant">>]
    /\ UNCHANGED <<jobs, task, status_log>>
    /\ UNCHANGED <<chat_vars, store_vars>>

\* execute_chain and post_processing returned: completed, with the log path
ChainReturn(j) ==
    /\ task[j] = "awaiting"
    /\ jobs' = MarkCompleted(jobs, j, LogPath)
    /\ task' = [task EXCEPT ![j] = "returned"]
    /\ status_log' = [status_log EXCEPT ![j] = Append(@, Logged(j, "completed"))]
    /\ UNCHANGED session
    /\ UNCHANGED <<chat_vars, store_vars>>

\* an Exception left pre_processing, execute_chain or post_processing and
\* reached the handler
ChainRaise(j, e) ==
    /\ task[j] = "awaiting"
    /\ jobs' = MarkFailed(jobs, j, e)
    /\ task' = [task EXCEPT ![j] = "returned"]
    /\ status_log' = [status_log EXCEPT ![j] = Append(@, Logged(j, "failed"))]
    /\ UNCHANGED session
    /\ UNCHANGED <<chat_vars, store_vars>>

\* the run is cancelled at an await: CancelledError is a BaseException, which
\* `except Exception` does not catch, so the coroutine ends with it
ChainCancel(j) ==
    /\ task[j] = "awaiting"
    /\ task' = [task EXCEPT ![j] = "cancelled"]
    /\ UNCHANGED <<jobs, session, status_log>>
    /\ UNCHANGED <<chat_vars, store_vars>>

\* the session as constructed, the environment's budget left open
InitSession ==
    /\ agent = [a \in Agents |-> NewAgent(a)]
    /\ \E w \in Windows : message_window_size = [a \in Agents |-> w]
    /\ vector_store \in BOOLEAN
    /\ pc = "idle"
    /\ attempt = 0
    /\ input_message = NoMessage
    /\ request = NoRequest
    /\ assistant_only = FALSE
    /\ assistant_response = EmptyResponse
    /\ ret = NoResult
    /\ placeholders = EmptyDict
    /\ mem = NoMem
    /\ turn = [a \in Agents |-> NotCalled]
    /\ pre = [a \in Agents |-> NewAgent(a)]
    /\ msg_read = NotRead
    /\ jobs = [j \in JobIds |-> NoJob]
    /\ task = [j \in JobIds |-> "none"]
    /\ session = [j \in JobIds |-> NoSession]
    /\ status_log = [j \in JobIds |-> <<>>]
    /\ points = [i \in PointIds |-> NoPoint]
    /\ store_ret = NoStoreOp

Init ==
    /\ InitSession
    /\ budget \in {[ops |-> MaxOps, fails |-> 0],
                   [ops |-> MaxFlakyOps, fails |-> MaxFailures]}

Next ==
    \/ \E t \in Templates, ph \in CallerPlaceholders, emb \in EmbeddingOutcomes,
          res \in SearchOutcomes : InitChat(t, ph, emb, res)
    \/ \E role \in {"user", "assistant"}, c \in InboundContents, ao \in BOOLEAN :
          RolePlayingStep(role, c, ao)
    \/ \E ch \in Choices : AssistantGatewayAnswer(ch)
    \/ AssistantGatewayFail
    \/ \E ch \in Choices : UserGatewayAnswer(ch)
    \/ UserGatewayFail
    \/ \E a \in Agents : AgentReset(a)

Spec == Init /\ [][Next]_vars

\* The same session with a gateway that never fails: no retry takes place.
InitReliable == Init /\ budget.fails = 0

NextReliable ==
    \/ \E t \in Templates, ph \in CallerPlaceholders, emb \in EmbeddingOutcomes,
          res \in SearchOutcomes : InitChat(t, ph, emb, res)
    \/ \E role \in {"user", "assistant"}, c \in InboundContents, ao \in BOOLEAN :
          RolePlayingStep(role, c, ao)
    \/ \E ch \in Choices : AssistantGatewayAnswer(ch)
    \/ \E ch \in Choices : UserGatewayAnswer(ch)
    \/ \E a \in Agents : AgentReset(a)

SpecReliable == InitReliable /\ [][NextReliable]_vars

\* A short session with a reliable gateway whose answers range over more
\* contents, and a caller that reads .msg of what RolePlaying.step returns.
WideReplyContents == {CPlain, CInfo, CInfoEarly, CInfoLate, CInfoTrailing}

WideChoices ==
    {<<c>> : c \in WideReplyContents}
        \cup {<<CPlain, CPlain>>, <<CPlain, CInfo>>, <<CInfo, CPlain>>}

InitWide == InitSession /\ budget = [ops |-> MaxWideOps, fails |-> 0]

NextWide ==
    \/ \E t \in Templates, ph \in CallerPlaceholders, emb \in EmbeddingOutcomes,
          res \in SearchOutcomes : InitChat(t, ph, emb, res)
    \/ \E role \in {"user", "assistant"}, c \in InboundContents, ao \in BOOLEAN :
          RolePlayingStep(role, c, ao)
    \/ \E ch \in WideChoices : AssistantGatewayAnswer(ch)
    \/ \E ch \in WideChoices : UserGatewayAnswer(ch)
    \/ \E a \in Agents : AgentReset(a)
    \/ ReadMsg

SpecWide == InitWide /\ [][NextWide]_vars

\* A chat as a phase runs it: init_chat once, then exchanges, each fed the
\* message the previous operation gave (init_chat's first message, then the
\* user's reply), for as long as the exchanges are full ones.
InitChatFirst(template, ph, emb, res) ==
    /\ ret.op = "none"
    /\ InitChat(template, ph, emb, res)

\* the last operation gave a message to go on with
FullExchange ==
    /\ pc = "idle"
    /\ ret.op = "step"
    /\ ret.status = "returned"
    /\ turn[User].status = "returned"
    /\ ~ret.user.terminated
    /\ Len(ret.user.msgs) = 1
    /\ \A a \in Agents : ~agent[a].info /\ ~agent[a].terminated

NextExchange ==
    \/ /\ ret.op = "init_chat"
       /\ ret.status = "returned"
       /\ RolePlayingStep(ret.msg.role, ret.msg.content, FALSE)
    \/ /\ FullExchange
       /\ RolePlayingStep(ret.user.msgs[1].role, ret.user.msgs[1].content, FALSE)

InitChatSpec == InitSession /\ budget = [ops |-> MaxChatOps, fails |-> 0]

NextChat ==
    \/ \E t \in Templates, ph \in CallerPlaceholders, emb \in EmbeddingOutcomes,
          res \in SearchOutcomes : InitChatFirst(t, ph, emb, res)
    \/ NextExchange
    \/ \E ch \in Choices : AssistantGatewayAnswer(ch)
    \/ \E ch \in Choices : UserGatewayAnswer(ch)

SpecChat == InitChatSpec /\ [][NextChat]_vars

\* The service: jobs submitted and run in the background, their runs
\* interleaved at the awaits.
InitService ==
    /\ InitSession
    /\ message_window_size = [a \in Agents |-> <<>>]
    /\ ~vector_store
    /\ budget = [ops |-> 0, fails |-> 0]

NextService ==
    \/ \E j \in JobIds, req \in Requests : create_task(j, req)
    \/ \E j \in JobIds, built \in BOOLEAN, e \in Errors : StartTask(j, built, e)
    \/ \E j \in JobIds : ChainStep(j)
    \/ \E j \in JobIds : ChainReturn(j)
    \/ \E j \in JobIds, e \in Errors : ChainRaise(j, e)
    \/ \E j \in JobIds : ChainCancel(j)

SpecService == InitService /\ [][NextService]_vars

\* The vector store on its own: items added, searched for and deleted.
InitStore ==
    /\ InitSession
    /\ message_window_size = [a \in Agents |-> <<>>]
    /\ ~vector_store
    /\ budget = [ops |-> 0, fails |-> 0]

NextStore ==
    \/ \E item \in Items, fresh \in PointIds : add(item, fresh)
    \/ \E q \in Vectors, limit \in 1..MaxPoints : search(q, limit)
    \/ \E ids \in SUBSET PointIds : delete(ids)

SpecStore == InitStore /\ [][NextStore]_vars

-----------------------------------------------------------------------------
(* Properties *)

\* the ChatAgent.step of agent a in the last exchange has returned a response
Returned(a) == turn[a].status = "returned"

\* RolePlaying.step has returned its pair
StepReturned == ret.op = "step" /\ ret.status = "returned"

\* the history of agent a beyond the first n messages holds only message m
OnlyAdded(a, n, m) ==
    \A i \in (n + 1)..Len(agent[a].stored_messages) :
        agent[a].stored_messages[i] = m

\* C1: in every reachable state the first element of each agent's history is
\* that agent's system message, and so is the first element of the context of
\* every completion request in flight, whatever the window size.
C1_SystemMessageFirst ==
    \A a \in Agents :
        /\ Len(agent[a].stored_messages) >= 1
        /\ agent[a].stored_messages[1] = system_message(a)
        /\ pc = a => /\ Len(request.messages) >= 1
                     /\ request.messages[1] = system_message(a)

\* a request in flight whose window has evicted part of the history
C1_Witness ==
    \E a \in Agents :
        /\ pc = a
        /\ message_window_size[a] # <<>>
        /\ Len(agent[a].stored_messages) > message_window_size[a][1] + 1
        /\ Len(request.messages) = message_window_size[a][1] + 1

\* C2: every response returned by ChatAgent.step with terminated = true has an
\* empty reply sequence.
C2_TerminatedImpliesEmpty ==
    \A a \in Agents :
        (Returned(a) /\ turn[a].response.terminated)
            => turn[a].response.msgs = <<>>

\* C3: a ChatAgent.step that returns has appended its input to the history
\* exactly once, whether or not attempts failed before.
C3_InboundAppendedOnce ==
    \A a \in Agents :
        Returned(a)
            => turn[a].stored = Append(pre[a].stored_messages, turn[a].input)

\* C4: a step whose gateway failed N < 5 times and was then to succeed returns
\* a non-terminated one-reply response after exactly N + 1 invocations; a step
\* that raises has invoked the gateway exactly 5 times.  (Steps whose first
\* context is over budget, whose agent was already terminated, or whose answer
\* has several choices are outside the claim.)
C4_RetryPolicy ==
    \A a \in Agents :
        /\ (/\ Returned(a)
            /\ turn[a].calls >= 1
            /\ ~pre[a].terminated
            /\ Len(turn[a].response.msgs) <= 1)
               => /\ ~turn[a].response.terminated
                  /\ Len(turn[a].response.msgs) = 1
                  /\ turn[a].calls = turn[a].fails + 1
        /\ turn[a].status = "raised"
               => turn[a].calls = MaxAttempts /\ turn[a].fails = MaxAttempts

\* the budget outcome of one execution of the step body, with the reason given
BudgetOutcome(a, reason, gateway_idle) ==
    /\ turn[a].num_tokens < model_token_limit => turn[a].invoked_last
    /\ turn[a].num_tokens >= model_token_limit
           => /\ Returned(a)
              /\ agent[a].terminated
              /\ turn[a].response.terminated
              /\ turn[a].response.msgs = <<>>
              /\ turn[a].response.info.termination_reasons = <<reason>>
              /\ turn[a].response.info.id = None
              /\ turn[a].response.info.usage = None
              /\ gateway_idle

C6_AssistantTerminated ==
    (/\ StepReturned
     /\ Returned(Assistant)
     /\ turn[Assistant].response.terminated
     /\ turn[Assistant].response.msgs = <<>>)
        => /\ ret.assistant.terminated
           /\ Len(ret.assistant.msgs) = 0
           /\ ret.assistant.info = turn[Assistant].response.info
           /\ ret.user = EmptyResponse
           /\ turn[User].status = "not_called"
           /\ agent[User] = pre[User]

\* C7: when the assistant's info flag is set after its non-terminated turn,
\* RolePlaying.step returns (that single reply, the empty result), the reply
\* is not appended (the assistant's history grew by the inbound message only)
\* and the user agent is neither called nor modified.
C7_InfoPath ==
    (/\ StepReturned
     /\ Returned(Assistant)
     /\ ~turn[Assistant].response.terminated
     /\ agent[Assistant].info)
        => /\ ret.assistant.msgs = turn[Assistant].response.msgs
           /\ Len(ret.assistant.msgs) = 1
           /\ ret.user = EmptyResponse
           /\ agent[Assistant].stored_messages = turn[Assistant].stored
           /\ OnlyAdded(Assistant, Len(pre[Assistant].stored_messages),
                        turn[Assistant].input)
           /\ SubSeq(agent[Assistant].stored_messages, 1,
                     Len(pre[Assistant].stored_messages))
                 = pre[Assistant].stored_messages
           /\ turn[User].status = "not_called"
           /\ agent[User] = pre[User]

\* an exchange that ended on the info path with a sentinel reply
C7_Witness ==
    /\ StepReturned
    /\ Returned(Assistant)
    /\ ~turn[Assistant].response.terminated
    /\ agent[Assistant].info
    /\ ~pre[Assistant].info
    /\ ret.assistant.msgs[1].content = CInfo

\* C8: with assistant_only and a normal assistant turn, RolePlaying.step
\* returns (that single reply, the empty result), the reply is appended to the
\* assistant's history, and the user agent is neither called nor modified.
C8_AssistantOnly ==
    (/\ StepReturned
     /\ assistant_only
     /\ Returned(Assistant)
     /\ ~turn[Assistant].response.terminated
     /\ ~agent[Assistant].info)
        => /\ ret.assistant.msgs = turn[Assistant].response.msgs
           /\ Len(ret.assistant.msgs) = 1
           /\ ~ret.assistant.terminated
           /\ ret.user = EmptyResponse
           /\ agent[Assistant].stored_messages
                 = Append(turn[Assistant].stored, ret.assistant.msgs[1])
           /\ turn[User].status = "not_called"
           /\ agent[User] = pre[User]

\* an assistant-only exchange that returned a plain reply
C8_Witness ==
    /\ StepReturned
    /\ assistant_only
    /\ Returned(Assistant)
    /\ ~turn[Assistant].response.terminated
    /\ ~agent[Assistant].info
    /\ Len(pre[User].stored_messages) > 1

\* C9: on the user side, a terminated user turn is returned as it is (empty
\* reply sequence) with nothing appended; with the user's info flag set the
\* single reply is returned and not appended; otherwise the reply is appended
\* to the user's history exactly once.
C9_UserSide ==
    (StepReturned /\ Returned(User))
        => /\ turn[User].response.terminated
                => /\ ret.user.terminated
                   /\ Len(ret.user.msgs) = 0
                   /\ agent[User].stored_messages = turn[User].stored
           /\ (~turn[User].response.terminated /\ agent[User].info)
                => /\ ret.user.msgs = turn[User].response.msgs
                   /\ agent[User].stored_messages = turn[User].stored
           /\ (~turn[User].response.terminated /\ ~agent[User].info)
                => /\ ret.user.msgs = turn[User].response.msgs
                   /\ agent[User].stored_messages
                         = Append(turn[User].stored, turn[User].response.msgs[1])

\* an operation that calls ChatAgent.reset on agent a has just run
ResetRan(a) ==
    /\ budget'.ops # budget.ops
    /\ ret'.op = "init_chat" \/ (ret'.op = "reset" /\ agent'[a] # agent[a])

\* C10: once an agent's termination flag is set, every step of the session
\* other than a reset leaves it set, and every ChatAgent.step that returns
\* meanwhile returns terminated = true.
C10_TerminatedAbsorbing ==
    [][\A a \in Agents :
          agent[a].terminated
              => /\ agent'[a].terminated \/ ResetRan(a)
                 /\ (turn'[a] # turn[a] /\ turn'[a].status = "returned")
                        => turn'[a].response.terminated]_vars

\* a step of an already terminated agent whose gateway call was answered
C10_Witness ==
    \E a \in Agents :
        /\ pre[a].terminated
        /\ Returned(a)
        /\ turn[a].invoked_last
        /\ agent[a].terminated

\* C11: a ChatAgent.step whose gateway call failed on every attempt up to the
\* attempt ceiling leaves the agent with its termination flag set.
C11_ExhaustionTerminates ==
    \A a \in Agents :
        (turn[a].status = "raised" /\ turn[a].fails = MaxAttempts)
            => agent[a].terminated

\* a ChatAgent.step of agent a that the gateway answered
Generated(a) ==
    /\ turn[a].status = "returned"
    /\ turn[a].invoked_last
    /\ Len(turn[a].response.msgs) >= 1

FirstReply(a) == turn[a].response.msgs[1].content

\* C12: after a successful generation the agent's info flag is set when the
\* last line of the first reply's content begins with the sentinel; when that
\* line does not begin with it the flag is what it was before the call, wherever
\* else the sentinel occurs in the reply or in the replies after the first.
C12_InfoDetection ==
    \A a \in Agents :
        Generated(a) =>
            LET last == FirstReply(a)[Len(FirstReply(a))]
                begins == last # <<>> /\ Head(last) = Sentinel
            IN agent[a].info = (pre[a].info \/ begins)

C12_Witness ==
    /\ Generated(Assistant)
    /\ FirstReply(Assistant) = CInfoEarly
    /\ ~agent[Assistant].info
    /\ Generated(User)
    /\ FirstReply(User) = CInfo
    /\ ~pre[User].info
    /\ agent[User].info

\* C13: while a ChatAgent.step waits for the gateway, the context it sent is,
\* with a window W configured and a history (inbound message appended) longer
\* than W, the system message followed by the last W messages of the history:
\* W + 1 messages, the system message first and nowhere else; without a window
\* or with a history of at most W messages it is the whole history. The stored
\* history is the one the step began with plus the inbound message.
C13_Windowing ==
    \A a \in Agents :
        pc = a =>
            LET h == agent[a].stored_messages
                n == Len(h)
                w == message_window_size[a]
                ctx == request.messages
            IN /\ h = Append(pre[a].stored_messages, input_message)
                   \/ \E k \in 1..MaxAttempts :
                        /\ Len(h) = Len(pre[a].stored_messages) + k
                        /\ SubSeq(h, 1, Len(pre[a].stored_messages))
                               = pre[a].stored_messages
               /\ IF w # <<>> /\ n > w[1]
                  THEN /\ Len(ctx) = w[1] + 1
                       /\ ctx[1] = system_message(a)
                       /\ \A i \in 1..w[1] : ctx[i + 1] = h[n - w[1] + i]
                       /\ \A i \in 2..Len(ctx) : ctx[i] # system_message(a)
                  ELSE ctx = h

C13_Witness ==
    /\ pc = User
    /\ message_window_size[User] = <<2>>
    /\ Len(agent[User].stored_messages) = 4
    /\ Len(request.messages) = 3
    /\ Len(pre[User].stored_messages) = 3

\* the step is an operation that called ChatAgent.reset on agent a
ResetOf(a) ==
    /\ budget'.ops # budget.ops
    /\ ret'.op = "init_chat" \/ (ret'.op = "reset" /\ ret'.target = a)

IsPrefix(s, t) == Len(s) <= Len(t) /\ SubSeq(t, 1, Len(s)) = s

\* C14: every step of the session that is not a reset of the agent leaves the
\* agent's previous history as a prefix of its new history.
C14_AppendOnly ==
    [][\A a \in Agents :
          ResetOf(a) \/ IsPrefix(agent[a].stored_messages,
                                 agent'[a].stored_messages)]_vars

\* a RolePlaying.step in which the assistant's call was retried and answered,
\* its reply appended by the driver, and the user's call ended over budget
C14_Witness ==
    /\ StepReturned
    /\ turn[Assistant].fails >= 1
    /\ Len(agent[Assistant].stored_messages)
           >= Len(pre[Assistant].stored_messages) + 3
    /\ ret.user.terminated
    /\ Len(agent[User].stored_messages) > Len(pre[User].stored_messages)

\* C15: ChatAgent.reset leaves the agent with its termination flag cleared and
\* a history of exactly the system message, whatever state it is called in;
\* called again directly after a reset of the same agent it changes nothing.
C15_ResetIdempotent ==
    [][\A a \in Agents :
          (budget'.ops # budget.ops /\ ret'.op = "reset" /\ ret'.target = a)
              => /\ agent'[a].stored_messages = <<system_message(a)>>
                 /\ ~agent'[a].terminated
                 /\ (ret.op = "reset" /\ ret.target = a) => agent'[a] = agent[a]
                 /\ \A b \in Agents \ {a} : agent'[b] = agent[b]]_vars

\* a reset of an agent that a reset had already brought back to its system
\* message, after a session that set its info flag
C15_Witness ==
    /\ ret.op = "reset"
    /\ agent[ret.target].info
    /\ pre[ret.target] = agent[ret.target]

\* a reset of a terminated agent with a history longer than the system message
C15_FromTerminated ==
    /\ ret.op = "reset"
    /\ pre[ret.target].terminated
    /\ Len(pre[ret.target].stored_messages) > 1

InitChatReturned == ret.op = "init_chat" /\ ret.status = "returned"

\* the phase template rendered by hand: the caller's assistant_role if it gave
\* one, else the assistant's role name; the caller's task
RenderedTemplate ==
    IF ret.template = THello
    THEN << <<"Hello",
              IF "assistant_role" \in placeholders.has
              THEN placeholders.val["assistant_role"][1]
              ELSE Assistant>> >>
    ELSE << placeholders.val["task"], <<"w">> >>

\* C16: when init_chat has returned, the message it returned has protocol role
\* "user" and the phase template rendered with the placeholders merged over
\* {assistant_role: the assistant's role name} as its content; the assistant's
\* history is its system message alone; the user's history is its system
\* message and a copy of the returned message with protocol role "assistant";
\* both termination flags are false; no completion call has been made.
C16_InitChat ==
    InitChatReturned =>
        /\ ret.msg.role = "user"
        /\ ret.msg.content = RenderedTemplate
        /\ agent[Assistant].stored_messages = <<system_message(Assistant)>>
        /\ Len(agent[User].stored_messages) = 2
        /\ agent[User].stored_messages[1] = system_message(User)
        /\ agent[User].stored_messages[2].role = "assistant"
        /\ agent[User].stored_messages[2].content = ret.msg.content
        /\ agent[User].stored_messages[2].role_name = ret.msg.role_name
        /\ \A a \in Agents : ~agent[a].terminated
        /\ \A a \in Agents : turn[a].calls = 0 /\ turn[a].status = "not_called"
        /\ pc = "idle"

\* "Hello {assistant_role}" with assistant_role = "Coder", in a session whose
\* agents had been used and the assistant terminated
C16_Witness ==
    /\ InitChatReturned
    /\ ret.msg.content = << <<"Hello", "Coder">> >>
    /\ Len(pre[User].stored_messages) > 2
    /\ pre[Assistant].terminated

\* the last RolePlaying.step was followed by the reads of .msg
MsgWasRead == msg_read # NotRead

\* what the claim as stated asks of one read: an error for a terminated result
\* or a number of replies other than one, else the reply
MsgAsStated(r, m) ==
    m.kind # "unread" =>
        IF r.terminated \/ Len(r.msgs) # 1
        THEN m.kind = "raise"
        ELSE m.kind = "value" /\ m.value = r.msgs[1]

MsgContract(r, m) ==
    m.kind # "unread" =>
        /\ m.kind = "raise"
               <=> \/ r.terminated
                   \/ Len(r.msgs) > 1
                   \/ Len(r.msgs) = 0 /\ r.info.len > 0
        /\ m.kind = "none"
               <=> ~r.terminated /\ Len(r.msgs) = 0 /\ r.info.len = 0
        /\ m.kind = "value"
               <=> ~r.terminated /\ Len(r.msgs) = 1
        /\ m.kind = "value" => m.value = r.msgs[1]

C17_RaisesReached ==
    /\ MsgWasRead
    /\ msg_read.assistant_step.kind = "value"
    /\ Len(turn[User].response.msgs) = 2
    /\ msg_read.user_step.kind = "raise"

\* the ChatAgent.step of agent a came back not terminated with several replies
SeveralReplies(a) ==
    /\ turn[a].status = "returned"
    /\ ~turn[a].response.terminated
    /\ Len(turn[a].response.msgs) > 1

\* C18: when an agent's non-terminated step yields more than one reply,
\* RolePlaying.step raises ValueError; on the assistant's side the assistant's
\* history is what its step left (no reply appended) and the user agent is not
\* invoked; on the user's side the user's history is what its step left.
C18_SeveralRepliesRaise ==
    /\ SeveralReplies(Assistant) =>
           /\ pc = "idle"
           /\ ret.op = "step" /\ ret.status = "raised" /\ ret.exc = "ValueError"
           /\ agent[Assistant].stored_messages = turn[Assistant].stored
           /\ turn[User] = NotCalled
           /\ agent[User] = pre[User]
    /\ SeveralReplies(User) =>
           /\ pc = "idle"
           /\ ret.op = "step" /\ ret.status = "raised" /\ ret.exc = "ValueError"
           /\ agent[User].stored_messages = turn[User].stored

\* the user's side: the assistant's single reply was appended, then the user's
\* step came back with two replies
C18_Witness ==
    /\ SeveralReplies(User)
    /\ ret.exc = "ValueError"
    /\ Len(agent[Assistant].stored_messages)
           = Len(turn[Assistant].stored) + 1

\* a two-reply answer to the assistant
C18_AssistantSide == SeveralReplies(Assistant) /\ ret.exc = "ValueError"

\* completion calls of agent a issued and not yet answered or failed
Outstanding(a) ==
    turn[a].calls - turn[a].fails
        - (IF turn[a].status = "returned" /\ turn[a].invoked_last THEN 1 ELSE 0)

\* C19: at any time at most one completion call of the session is
\* outstanding, retries included; and the user agent's call has been issued
\* only if the assistant agent's step has returned, not terminated, with a
\* single reply whose last line does not begin with the sentinel, the
\* assistant's info flag is clear and assistant_only is false.
C19_Serialized ==
    /\ \A a \in Agents : Outstanding(a) \in {0, 1}
    /\ Outstanding(Assistant) + Outstanding(User) <= 1
    /\ \A a \in Agents : (Outstanding(a) = 1) <=> (pc = a)
    /\ turn[User].calls > 0 =>
           /\ turn[Assistant].status = "returned"
           /\ Outstanding(Assistant) = 0
           /\ ~turn[Assistant].response.terminated
           /\ Len(turn[Assistant].response.msgs) = 1
           /\ LET c == turn[Assistant].response.msgs[1].content
              IN c[Len(c)] = <<>> \/ Head(c[Len(c)]) # Sentinel
           /\ ~agent[Assistant].info
           /\ ~assistant_only

\* the user's call outstanding on a retry, after the assistant's call had
\* itself been retried
C19_Witness ==
    /\ pc = User
    /\ turn[User].fails >= 1
    /\ turn[Assistant].fails >= 1
    /\ Outstanding(User) = 1

\* the user agent's step was entered in the current RolePlaying.step
UserEntered == turn[User].input # NoMessage

\* C20: once RolePlaying.step has handed the assistant's reply to the user
\* agent, the reply in the assistant's own history still has the protocol
\* role it was produced with ("assistant"), and the message appended to the
\* user agent's history has role "user" and the same content and role name;
\* once init_chat has returned, the returned message has role "user" and the
\* copy in the user agent's history has role "assistant" and the same content.
C20_RelabelOnCopy ==
    /\ UserEntered =>
           LET reply == turn[Assistant].response.msgs[1]
               kept == agent[Assistant].stored_messages[
                           Len(turn[Assistant].stored) + 1]
               given == agent[User].stored_messages[
                            Len(pre[User].stored_messages) + 1]
           IN /\ reply.role = "assistant"
              /\ kept = reply
              /\ given.role = "user"
              /\ given.content = reply.content
              /\ given.role_name = reply.role_name
              /\ given = turn[User].input
    /\ InitChatReturned =>
           LET injected == agent[User].stored_messages[2]
           IN /\ ret.msg.role = "user"
              /\ injected.role = "assistant"
              /\ injected.content = ret.msg.content
              /\ injected # ret.msg

\* the user's step has run on the relabelled reply and returned
C20_Witness ==
    /\ UserEntered
    /\ StepReturned
    /\ turn[User].status = "returned"
    /\ Len(ret.user.msgs) = 1
    /\ ~ret.user.terminated

\* C21: when init_chat has returned and the bound vector store's search gave
\* zero items, use_memory_async returned None (no string at all, not an empty
\* one) and the caller's placeholders have no "examples" entry.
C21_EmptySearch ==
    (InitChatReturned /\ vector_store /\ mem.search_calls = 1
         /\ ~mem.results.raised /\ mem.results.n = 0)
        => /\ mem.result = NoMemory
           /\ "examples" \notin placeholders.has
           /\ placeholders \in CallerPlaceholders

\* a search that gave zero items, with placeholders the caller had filled
C21_Witness ==
    /\ InitChatReturned
    /\ vector_store
    /\ mem.embedding = "vector"
    /\ mem.search_calls = 1
    /\ ~mem.results.raised
    /\ mem.results.n = 0
    /\ placeholders = Singleton("assistant_role", <<"Coder">>)

\* C22: use_memory_async never raises: an init_chat that raised did so while
\* formatting, before the retrieval. It returns None, without calling the
\* embedding, when no vector store is bound; None, without searching, when the
\* embedding call failed or gave an empty vector; and None when the search
\* raised. In each of these cases an init_chat whose template could be
\* formatted has returned its first message.
C22_MemoryFailuresRecovered ==
    ret.op = "init_chat" =>
        /\ ~mem.raised
        /\ ret.status = "raised" => (ret.exc = "KeyError" /\ mem = NoMem)
        /\ ~vector_store => mem = NoMem
        /\ mem.embedding \in {"raise", "empty"} =>
               /\ mem.result = NoMemory
               /\ mem.embed_calls = 1
               /\ mem.search_calls = 0
        /\ mem.results.raised =>
               /\ mem.result = NoMemory
               /\ mem.search_calls = 1
        /\ (mem.result = NoMemory
                /\ ~FormatRaises(ret.template,
                                 Merge(Singleton("assistant_role", <<Assistant>>),
                                       placeholders)))
               => /\ ret.status = "returned"
                  /\ ret.msg.role = "user"
                  /\ Len(agent[User].stored_messages) = 2

\* the search raised and init_chat returned its first message all the same
C22_Witness ==
    /\ InitChatReturned
    /\ vector_store
    /\ mem.embedding = "vector"
    /\ mem.results.raised
    /\ ret.msg.content = << <<"Hello", Assistant>> >>

\* the embedding call failed and init_chat returned
C22_EmbeddingFailed ==
    /\ InitChatReturned
    /\ mem.embedding = "raise"

Submitted(j) == jobs[j] # NoJob

\* the statuses assigned to job j, in the order of the assignments
StatusesOf(j) == [i \in 1..Len(status_log[j]) |-> status_log[j][i].status]

Lifecycles ==
    {<<"pending", "running", "completed">>, <<"pending", "running", "failed">>}

\* C23: the status of every submitted job is pending, running, completed or
\* failed; the statuses it has been assigned so far, beginning with pending at
\* submission, are an initial part of pending, running, completed or of
\* pending, running, failed, so that nothing follows completed or failed; a
\* completed job has a result path and a failed job an error text.
C23_JobLifecycle ==
    \A j \in JobIds :
        Submitted(j) =>
            /\ jobs[j].status \in {"pending", "running", "completed", "failed"}
            /\ StatusesOf(j) # <<>>
            /\ \E l \in Lifecycles : IsPrefix(StatusesOf(j), l)
            /\ jobs[j].status = StatusesOf(j)[Len(StatusesOf(j))]
            /\ jobs[j].status = "completed" =>
                   (jobs[j].result_path = <<LogPath>> /\ jobs[j].error = <<>>)
            /\ jobs[j].status = "failed" =>
                   (jobs[j].error # <<>> /\ jobs[j].result_path = <<>>)

\* one job completed and another failed
C23_Witness ==
    /\ jobs[1].status = "completed"
    /\ jobs[1].result_path = <<LogPath>>
    /\ jobs[2].status = "failed"
    /\ jobs[2].error = <<"RetryError">>

\* job j is marked failed by the step
Fails(j) == jobs'[j].status = "failed" /\ jobs[j].status # "failed"

\* C24: a step that marks a job failed stores the status and the error text
\* in that job's entry and changes nothing else of it; every other job's
\* entry, background run and agents' histories are as they were.
C24_FailureIsLocal ==
    [][\A j \in JobIds :
          Fails(j) =>
              /\ \E e \in Errors :
                    jobs'[j] = [jobs[j] EXCEPT !.status = "failed",
                                               !.error = <<e>>]
              /\ session'[j] = session[j]
              /\ \A k \in JobIds \ {j} :
                    /\ jobs'[k] = jobs[k]
                    /\ session'[k] = session[k]
                    /\ task'[k] = task[k]]_vars

\* two jobs running at once; the first failed, the second went on with its
\* chain and completed afterwards
C24_Witness ==
    /\ jobs[1].status = "failed"
    /\ jobs[2].status = "completed"
    /\ Len(session[2].assistant) > 1
    /\ Len(status_log[1]) = 3
    /\ status_log[1][3].others
    /\ Len(status_log[2]) = 3
    /\ status_log[2][3].others

\* the background run of job j has ended, by returning or by cancellation
RunEnded(j) == task[j] \in {"returned", "cancelled"}

\* C29: a job whose background run has ended, however it ended, has status
\* completed or failed.
C29_NoRunningAfterEnd ==
    \A j \in JobIds :
        RunEnded(j) => jobs[j].status \in {"completed", "failed"}

\* a search that followed the add of an item with a vector, asked with that
\* vector and a limit that leaves no stored point out
SearchAfterAdd ==
    /\ store_ret.op = "search"
    /\ store_ret.stored
    /\ store_ret.query = store_ret.item.vector[1]
    /\ store_ret.limit >= Cardinality(Present(points))

\* a search that followed a delete
SearchAfterDelete == store_ret.op = "search" /\ store_ret.ids # {}

\* C25: a search with the vector of the item just added returns an item with
\* that item's content; a search after a delete returns none of the deleted
\* ids; and a search returns only points that are stored.
C25_StoreLifecycle ==
    /\ SearchAfterAdd =>
           \E r \in store_ret.found : r.content = store_ret.item.content
    /\ SearchAfterDelete =>
           \A r \in store_ret.found : r.id \notin store_ret.ids
    /\ store_ret.op = "search" =>
           \A r \in store_ret.found :
               points[r.id].present /\ points[r.id].content = r.content

\* the part of C25 about delete and about what a search may return
C25_DeleteAndSearch ==
    /\ SearchAfterDelete =>
           \A r \in store_ret.found : r.id \notin store_ret.ids
    /\ store_ret.op = "search" =>
           \A r \in store_ret.found :
               points[r.id].present /\ points[r.id].content = r.content

\* a search after a delete, with another point still stored and returned
C25_DeleteReached ==
    /\ SearchAfterDelete
    /\ store_ret.found # {}

\* a RolePlaying.step has ended whose assistant step came back not terminated,
\* the assistant's info flag having been set before the exchange began
ExchangeAfterInfo ==
    /\ pc = "idle"
    /\ ret.op = "step"
    /\ pre[Assistant].info
    /\ turn[Assistant].status = "returned"
    /\ ~turn[Assistant].response.terminated

\* the exchange left the assistant's reply unappended and the user agent alone
NothingAppended ==
    /\ agent[Assistant].stored_messages = turn[Assistant].stored
    /\ turn[User] = NotCalled
    /\ agent[User] = pre[User]

\* RolePlaying.step returned on its info path
InfoPath ==
    /\ ret.status = "returned"
    /\ ret.assistant.msgs = turn[Assistant].response.msgs
    /\ ret.user = EmptyResponse
    /\ NothingAppended

\* C26 as stated: the info flag is never cleared, and every exchange after it
\* was set on the assistant, whose assistant step is not terminated, returns
\* on the info path.
C26_AsStated ==
    [][/\ \A a \in Agents : agent[a].info => agent'[a].info
       /\ (ExchangeAfterInfo => InfoPath)']_vars

\* C26: an agent's info flag is false at construction and no step of the
\* session clears it; every exchange that began with the assistant's flag set
\* and whose assistant step came back not terminated leaves the assistant's
\* reply unappended and the user agent uninvoked: with a single reply it
\* returns on the info path, with several replies it raises ValueError.
C26_InfoMonotone ==
    [][/\ \A a \in Agents : ~NewAgent(a).info
       /\ \A a \in Agents : agent[a].info => agent'[a].info
       /\ (ExchangeAfterInfo =>
              /\ NothingAppended
              /\ IF Len(turn[Assistant].response.msgs) = 1
                 THEN InfoPath
                 ELSE ret.status = "raised" /\ ret.exc = "ValueError")']_vars

\* the flag set in one exchange, the assistant reset, and a later exchange with
\* a reply without the sentinel returned on the info path
C26_Witness ==
    /\ ExchangeAfterInfo
    /\ Len(pre[Assistant].stored_messages) = 1
    /\ FirstReply(Assistant) = CPlain
    /\ Len(turn[Assistant].response.msgs) = 1
    /\ InfoPath

\* exchanges run since init_chat, in SpecChat
Exchanges == MaxChatOps - 1 - budget.ops

Roles(h) == [i \in 1..Len(h) |-> h[i].role]

RECURSIVE Pairs(_)
Pairs(k) == IF k = 0 THEN <<>> ELSE <<"user", "assistant">> \o Pairs(k - 1)

\* C27: after init_chat and k full exchanges, each fed the message the previous
\* operation gave, the assistant's history has 1 + 2k messages with roles
\* system, (user, assistant)^k and the user's has 2 + 2k with roles system,
\* assistant, (user, assistant)^k; in the assistant's history every user
\* position holds the content of the message before it in the user's history
\* (the first message, then the user's replies), and in the user's history
\* every user position holds the content of the assistant's reply before it.
C27_HistoryAccounting ==
    (InitChatReturned \/ FullExchange) =>
        LET k == Exchanges
            ha == agent[Assistant].stored_messages
            hu == agent[User].stored_messages
        IN /\ Len(ha) = 1 + 2 * k
           /\ Roles(ha) = <<"system">> \o Pairs(k)
           /\ Len(hu) = 2 + 2 * k
           /\ Roles(hu) = <<"system", "assistant">> \o Pairs(k)
           /\ \A i \in 1..k :
                 /\ ha[2 * i].content = hu[2 * i].content
                 /\ hu[2 * i + 1].content = ha[2 * i + 1].content
           /\ k >= 1 =>
                 /\ ha[2 * k + 1] = ret.assistant.msgs[1]
                 /\ hu[2 * k + 2] = ret.user.msgs[1]

\* two full exchanges after init_chat
C27_Witness ==
    /\ FullExchange
    /\ Exchanges = 2
    /\ Len(agent[User].stored_messages) = 6

\* the dict d without its entry for key
Without(d, key) == Dict(d.has \ {key}, [d.val EXCEPT ![key] = <<>>])

\* C28: when init_chat has returned, a second run from the same agents, with
\* the same phase prompt and caller's placeholders but any other behaviour of
\* the memory gateways (none bound, embedding failing, search failing, nothing
\* or something found), returns the same message and injects the same copy
\* into the user's history; the two runs differ at most in the "examples"
\* entry of the caller's placeholders, present exactly when a block was found.
C28_MessageIndependentOfMemory ==
    InitChatReturned =>
        \A bound \in BOOLEAN, emb \in EmbeddingOutcomes, res \in SearchOutcomes :
            LET other == init_chat(pre, ret.template,
                                   Without(placeholders, "examples"),
                                   bound, emb, res)
            IN /\ other.ret.status = "returned"
               /\ other.ret.msg = ret.msg
               /\ other.agent = agent
               /\ Without(other.placeholders, "examples")
                      = Without(placeholders, "examples")
               /\ ("examples" \in other.placeholders.has) <=> other.mem.result.some
               /\ ("examples" \in placeholders.has) <=> mem.result.some

\* a run in which a memory block was retrieved
C28_Witness ==
    /\ InitChatReturned
    /\ mem.result.some
    /\ "examples" \in placeholders.has
    /\ ret.msg.content = << <<"w">>, <<"w">> >>

====
